---- MODULE Spec2Model ----
(***************************************************************************)
(* The trash subsystem of src/os_explorer.py: ensure_trash, cmd_rm and     *)
(* cmd_restore over a POSIX file system.                                   *)
(*                                                                         *)
(* A string is a sequence of one-character strings, so that the string     *)
(* and os.path operations of the source (split, strip, endswith, basename, *)
(* splitext, join, abspath) are computed character by character.  A file's *)
(* content is the sequence of its lines (without the newline).             *)
(***************************************************************************)
EXTENDS Integers, Sequences, FiniteSets, TLC

\* ------------------------------------------------------------------------
\* Strings
\* ------------------------------------------------------------------------
sep == "/"
TAB == "\t"
DOT == "."

Whitespace == {" ", TAB}

StartsWith(s, p) ==
  /\ Len(p) <= Len(s)
  /\ SubSeq(s, 1, Len(p)) = p

EndsWith(s, p) ==
  /\ Len(p) <= Len(s)
  /\ SubSeq(s, Len(s) - Len(p) + 1, Len(s)) = p

\* s.rfind(c), 1-based; 0 when c does not occur
RFind(s, c) ==
  IF \E i \in 1..Len(s) : s[i] = c
  THEN CHOOSE i \in 1..Len(s) : s[i] = c /\ \A j \in (i+1)..Len(s) : s[j] # c
  ELSE 0

\* s.find(c), 1-based; 0 when c does not occur
Find(s, c) ==
  IF \E i \in 1..Len(s) : s[i] = c
  THEN CHOOSE i \in 1..Len(s) : s[i] = c /\ \A j \in 1..(i-1) : s[j] # c
  ELSE 0

\* s.rstrip(chars)
RStrip(s, chars) ==
  IF \A i \in 1..Len(s) : s[i] \in chars
  THEN << >>
  ELSE SubSeq(s, 1, CHOOSE i \in 1..Len(s) :
                      s[i] \notin chars /\ \A j \in (i+1)..Len(s) : s[j] \in chars)

\* s.lstrip(chars)
LStrip(s, chars) ==
  IF \A i \in 1..Len(s) : s[i] \in chars
  THEN << >>
  ELSE SubSeq(s, CHOOSE i \in 1..Len(s) :
                   s[i] \notin chars /\ \A j \in 1..(i-1) : s[j] \in chars, Len(s))

\* s.strip()
Strip(s) == LStrip(RStrip(s, Whitespace), Whitespace)

\* s.split(c, maxsplit): the string is cut at its first maxsplit occurrences
\* of c, so the last field keeps any further occurrence
SplitMax(s, c, maxsplit) ==
  LET at     == { i \in 1..Len(s) : s[i] = c }
      cuts   == { i \in at : Cardinality({ j \in at : j < i }) < maxsplit }
      n      == Cardinality(cuts)
      cut(k) == IF k = 0 THEN 0
                ELSE IF k = n + 1 THEN Len(s) + 1
                ELSE CHOOSE i \in cuts : Cardinality({ j \in cuts : j < i }) = k - 1
  IN [k \in 1..(n + 1) |-> SubSeq(s, cut(k - 1) + 1, cut(k) - 1)]

\* s.split(c): all the fields
SplitAll(s, c) == SplitMax(s, c, Len(s))

\* c.join(parts)
RECURSIVE JoinWith(_, _)
JoinWith(parts, c) ==
  IF parts = << >> THEN << >>
  ELSE IF Len(parts) = 1 THEN parts[1]
  ELSE parts[1] \o << c >> \o JoinWith(Tail(parts), c)

Digit(d) == CASE d = 0 -> "0" [] d = 1 -> "1" [] d = 2 -> "2" [] d = 3 -> "3"
              [] d = 4 -> "4" [] d = 5 -> "5" [] d = 6 -> "6" [] d = 7 -> "7"
              [] d = 8 -> "8" [] d = 9 -> "9"

\* str(n) for n >= 0, as the f-string formats {epoch}
RECURSIVE IntToStr(_)
IntToStr(n) ==
  IF n < 10 THEN << Digit(n) >> ELSE IntToStr(n \div 10) \o << Digit(n % 10) >>

\* ------------------------------------------------------------------------
\* os.path (posixpath)
\* ------------------------------------------------------------------------
IsAbs(p) == Len(p) > 0 /\ p[1] = sep

\* os.path.join(a, b)
PathJoin(a, b) ==
  IF IsAbs(b) THEN b
  ELSE IF a = << >> \/ a[Len(a)] = sep THEN a \o b
  ELSE a \o << sep >> \o b

\* os.path.split(p) -> <<head, tail>>
PathSplit(p) ==
  LET i    == RFind(p, sep)
      head == SubSeq(p, 1, i)
      tail == SubSeq(p, i + 1, Len(p))
  IN << IF head # << >> /\ \E k \in 1..Len(head) : head[k] # sep
        THEN RStrip(head, {sep}) ELSE head,
        tail >>

\* os.path.basename(p)
BaseName(p) == SubSeq(p, RFind(p, sep) + 1, Len(p))

\* os.path.splitext(p) -> <<root, ext>>: the last dot starts the extension
\* unless only dots precede it in the last component
SplitExt(p) ==
  LET sepIndex == RFind(p, sep)
      dotIndex == RFind(p, DOT)
  IN IF dotIndex > sepIndex
        /\ \E k \in (sepIndex + 1)..(dotIndex - 1) : p[k] # DOT
     THEN << SubSeq(p, 1, dotIndex - 1), SubSeq(p, dotIndex, Len(p)) >>
     ELSE << p, << >> >>

\* os.path.normpath(p) of an absolute p: empty and "." components are
\* dropped, ".." removes the component before it (and is dropped at the root)
RECURSIVE NormComps(_, _)
NormComps(comps, acc) ==
  IF comps = << >> THEN acc
  ELSE LET c == Head(comps)
       IN IF c = << >> \/ c = << DOT >> THEN NormComps(Tail(comps), acc)
          ELSE IF c = << DOT, DOT >>
               THEN NormComps(Tail(comps),
                              IF acc = << >> THEN acc
                              ELSE SubSeq(acc, 1, Len(acc) - 1))
          ELSE NormComps(Tail(comps), Append(acc, c))

NormPath(p) == << sep >> \o JoinWith(NormComps(SplitAll(p, sep), << >>), sep)

\* ------------------------------------------------------------------------
\* Program constants
\* ------------------------------------------------------------------------
TRASH_NAME == << ".", "t", "r", "a", "s", "h" >>
MANIFEST_NAME == << "m", "a", "n", "i", "f", "e", "s", "t", ".", "t", "s", "v" >>
\* "# epoch\ttrashed_path\toriginal_abs_path"
HEADER ==
  << "#", " ", "e", "p", "o", "c", "h", TAB,
     "t", "r", "a", "s", "h", "e", "d", "_", "p", "a", "t", "h", TAB,
     "o", "r", "i", "g", "i", "n", "a", "l", "_", "a", "b", "s", "_",
     "p", "a", "t", "h" >>
RESTORED == << "_", "r", "e", "s", "t", "o", "r", "e", "d" >>

\* ------------------------------------------------------------------------
\* Bounds and inputs
\* ------------------------------------------------------------------------
MaxEpoch == 2      \* int(time.time()) ranges over 1..MaxEpoch
MaxOps == 3        \* commands in one run of Spec
MaxDeep == 4       \* commands in one run of SpecDeep

\* os.getcwd() of every invocation
cwd == << sep, "r" >>
\* values of --root: the default "."
RootArgs == { << DOT >> }

dirA == << sep, "a" >>
dirB == << sep, "b" >>
nameX == << "x", DOT, "t" >>
nameXR == << "x" >> \o RESTORED \o << DOT, "t" >>
nameTab == << "y", TAB, "z" >>
name1X == << "1", "_" >> \o nameX

dataP == << << "p" >> >>
dataQ == << << "q" >> >>
dataT == << << "t" >> >>
dataN == << << "n" >> >>

File(d) == [kind |-> "file", data |-> d]
Dir == [kind |-> "dir", data |-> << >>]

\* names given to restore
RestoreNames == { nameX, nameTab, << "a" >> }

\* paths given to rm: two files of the same name in different directories, a
\* file whose name holds a tab, a directory named with a trailing separator,
\* the manifest and the trash directory named relative to the working
\* directory, and a path that does not exist
RmTargets ==
  { PathJoin(dirA, nameX), PathJoin(dirB, nameX), PathJoin(dirA, nameTab),
    dirA \o << sep >>,
    PathJoin(TRASH_NAME, MANIFEST_NAME), TRASH_NAME,
    PathJoin(dirB, << "n" >>) }

\* what the user puts at a free path between commands
CreateChoices ==
  { << PathJoin(dirA, nameX), File(dataN) >>,
    << PathJoin(dirA, nameXR), File(dataN) >>,
    << PathJoin(dirA, nameXR), Dir >>,
    << PathJoin(cwd, name1X), File(dataN) >> }

\* ------------------------------------------------------------------------
\* State
\* ------------------------------------------------------------------------
VARIABLES
  fs,     \* the file system: absolute normalised path |-> [kind, data]
  now,    \* the clock, in epoch seconds
  hist    \* the commands run so far, each with the state it started in

vars == << fs, now, hist >>

\* ------------------------------------------------------------------------
\* File system (POSIX semantics of the calls the source makes)
\* ------------------------------------------------------------------------
\* os.path.abspath(p)
AbsPath(p) == NormPath(IF IsAbs(p) THEN p ELSE PathJoin(cwd, p))

Parent(q) == PathSplit(q)[1]

\* q is d or lies below d
Under(d, q) == q = d \/ StartsWith(q, IF d = << sep >> THEN d ELSE d \o << sep >>)

\* os.path.exists(p), q being p made absolute: a trailing separator demands
\* a directory
ExistsAt(f, p, q) ==
  /\ p # << >>
  /\ q \in DOMAIN f
  /\ (p[Len(p)] = sep => f[q].kind = "dir")

Exists(f, p) == ExistsAt(f, p, AbsPath(p))

IsDirAt(f, q) == q \in DOMAIN f /\ f[q].kind = "dir"

Ok(f) == [ok |-> TRUE, fs |-> f]
Raise(f) == [ok |-> FALSE, fs |-> f]

\* f with entry ent put at path q
Put(f, q, ent) == [d \in DOMAIN f \cup {q} |-> IF d = q THEN ent ELSE f[d]]

\* os.makedirs(p, exist_ok=True): every missing prefix becomes a directory;
\* it raises when a prefix is a file
Prefixes(q) ==
  { SubSeq(q, 1, i) : i \in { j \in 2..Len(q) : j = Len(q) \/ q[j + 1] = sep } }

MakeAll(f, dirs) ==
  IF \E d \in dirs : d \in DOMAIN f /\ f[d].kind # "dir"
  THEN Raise(f)
  ELSE Ok([d \in DOMAIN f \cup dirs |-> IF d \in DOMAIN f THEN f[d] ELSE Dir])

MakeDirs(f, p) == MakeAll(f, Prefixes(AbsPath(p)))

\* open(p, 'a') followed by write(line + "\n"), q being p made absolute
AppendAt(f, q, line) ==
  IF q \in DOMAIN f
  THEN IF f[q].kind = "file"
       THEN Ok([f EXCEPT ![q].data = Append(@, line)])
       ELSE Raise(f)
  ELSE IF IsDirAt(f, Parent(q))
       THEN Ok(Put(f, q, File(<< line >>)))
       ELSE Raise(f)

AppendLine(f, p, line) == AppendAt(f, AbsPath(p), line)

\* the file system after the subtree at s has moved to d
Moved(f, s, d, sub) ==
  [q \in ((DOMAIN f \ sub) \ {d}) \cup { d \o SubSeq(o, Len(s) + 1, Len(o)) : o \in sub } |->
     IF Under(d, q) /\ s \o SubSeq(q, Len(d) + 1, Len(q)) \in sub
     THEN f[s \o SubSeq(q, Len(d) + 1, Len(q))]
     ELSE f[q]]

\* os.rename(src, dst), rename(2), s and d being src and dst made absolute:
\* the subtree at src moves to dst.  A file silently replaces a file, a
\* directory replaces an empty directory; it fails when src is missing,
\* dst's directory is missing, dst lies inside src, or the kinds of src and
\* an existing dst do not allow the replacement.
RenameAt(f, src, s, d) ==
  IF ~ExistsAt(f, src, s) THEN Raise(f)
  ELSE IF ~IsDirAt(f, Parent(d)) THEN Raise(f)
  ELSE IF s = d THEN Ok(f)
  ELSE IF Under(s, d) THEN Raise(f)
  ELSE IF d \in DOMAIN f /\ f[s].kind = "dir"
          /\ (f[d].kind # "dir" \/ \E q \in DOMAIN f : q # d /\ Under(d, q))
       THEN Raise(f)
  ELSE IF d \in DOMAIN f /\ f[s].kind = "file" /\ f[d].kind = "dir" THEN Raise(f)
  ELSE Ok(Moved(f, s, d, { q \in DOMAIN f : Under(s, q) }))

Rename(f, src, dst) == RenameAt(f, src, AbsPath(src), AbsPath(dst))

\* ------------------------------------------------------------------------
\* ensure_trash, cmd_rm, cmd_restore
\* ------------------------------------------------------------------------
\* os.path.abspath(args.root or os.getcwd())
RootOf(rootArg) == AbsPath(IF rootArg = << >> THEN cwd ELSE rootArg)

TrashDir(root) == PathJoin(root, TRASH_NAME)
ManifestPath(root) == PathJoin(TrashDir(root), MANIFEST_NAME)

\* lines 240-241
EnsureDir(f, trash) == IF ~Exists(f, trash) THEN MakeDirs(f, trash) ELSE Ok(f)

\* lines 243-245, made being the outcome of lines 240-241
EnsureManifest(made, manifest) ==
  IF ~made.ok THEN made
  ELSE IF ~Exists(made.fs, manifest) THEN AppendLine(made.fs, manifest, HEADER)
  ELSE made

\* ensure_trash(root): [ok, fs]; ok is FALSE when makedirs or open raises
ensure_trash(f, root) ==
  EnsureManifest(EnsureDir(f, TrashDir(root)), ManifestPath(root))

\* f"{epoch}_{base}"
TrashedName(epoch, target) ==
  IntToStr(epoch) \o << "_" >> \o BaseName(RStrip(target, {sep}))

\* the line cmd_rm writes: f"{epoch}\t{trashed_name}\t{os.path.abspath(target)}"
RecordLine(epoch, target) ==
  IntToStr(epoch) \o << TAB >> \o TrashedName(epoch, target)
    \o << TAB >> \o AbsPath(target)

\* What a command leaves behind: its exit status, the message it prints
\* (out), the file system, and the values of the handler's variables
\* original_path, trashed_path and dest/dst when it got that far.
Result(status, out, f, orig, src, dest) ==
  [status |-> status, out |-> out, fs |-> f, orig |-> orig, src |-> src, dest |-> dest]

NONE == << >>

\* lines 269-273, a being the outcome of the append
rm_logged(a, abs, dst) ==
  IF ~a.ok THEN Result(1, "crash", a.fs, abs, abs, dst)
  ELSE Result(0, "Moved to trash", a.fs, abs, abs, dst)

\* rm_log with the record written whether or not the rename succeeded
rm_log_first(r, manifest, line, abs, dst) ==
  IF ~r.ok
  THEN Result(1, "could not move to trash", AppendLine(r.fs, manifest, line).fs,
              abs, NONE, dst)
  ELSE rm_logged(AppendLine(r.fs, manifest, line), abs, dst)

\* lines 262-273, r being the outcome of os.rename
rm_log(r, manifest, line, abs, dst) ==
  IF ~r.ok THEN Result(1, "could not move to trash", r.fs, abs, NONE, dst)
  ELSE rm_logged(AppendLine(r.fs, manifest, line), abs, dst)

\* lines 257-273, e being the outcome of ensure_trash
rm_move(e, trash, target, epoch) ==
  IF ~e.ok THEN Result(1, "crash", e.fs, NONE, NONE, NONE)
  ELSE rm_log(Rename(e.fs, target, PathJoin(trash, TrashedName(epoch, target))),
              PathJoin(trash, MANIFEST_NAME), RecordLine(epoch, target),
              AbsPath(target), PathJoin(trash, TrashedName(epoch, target)))

\* cmd_rm(args) at time epoch
cmd_rm(f, target, rootArg, epoch) ==
  IF ~Exists(f, target) THEN Result(1, "not found", f, NONE, NONE, NONE)
  ELSE rm_move(ensure_trash(f, RootOf(rootArg)), TrashDir(RootOf(rootArg)),
               target, epoch)

\* the lines cmd_restore keeps: stripped, neither blank nor starting with "#"
KeepLine(ln) == Strip(ln) # << >> /\ ~StartsWith(ln, << "#" >>)

StripAll(kept) == [i \in 1..Len(kept) |-> Strip(kept[i])]

ReadLines(data) == StripAll(SelectSeq(data, KeepLine))

\* parts = lines[idx].split("\t", 2)
Parts(line) == SplitMax(line, TAB, 2)

\* the test of line 298 on original_path
PathMatches(original_path, name_tail) ==
  \/ EndsWith(original_path, << sep >> \o name_tail)
  \/ BaseName(original_path) = name_tail

\* lines 293-298: the line has three parts and its third part matches
Matches(parts, name_tail) == Len(parts) = 3 /\ PathMatches(parts[3], name_tail)

Greatest(hits) == IF hits = {} THEN 0 ELSE CHOOSE i \in hits : \A j \in hits : j <= i

\* the index the backward scan stops at, 0 when it runs off the list
Selected(lines, name_tail) ==
  Greatest({ i \in 1..Len(lines) : Matches(Parts(lines[i]), name_tail) })

\* lines 302-304
WithSuffix(head, nameExt) == PathJoin(head, nameExt[1] \o RESTORED \o nameExt[2])

Renamed(headTail) == WithSuffix(headTail[1], SplitExt(headTail[2]))

\* RestoreDest without the test of line 301
RestoreDest_unchecked(f, original_path) == original_path

\* dest of lines 300-304
RestoreDest(f, original_path) ==
  IF Exists(f, original_path) THEN Renamed(PathSplit(original_path))
  ELSE original_path

\* trashed_path of lines 307-310
ResolveTrashed(f, trash, trashed_path) ==
  IF ~IsAbs(trashed_path) /\ Exists(f, PathJoin(trash, trashed_path))
  THEN PathJoin(trash, trashed_path)
  ELSE trashed_path

\* lines 317-324, r being the outcome of os.rename
restore_moved(r, original_path, trashed_path, dest) ==
  IF ~r.ok THEN Result(1, "Error during restore", r.fs, original_path, trashed_path, dest)
  ELSE Result(0, "Restored to", r.fs, original_path, trashed_path, dest)

\* lines 313-324
restore_move(f, original_path, trashed_path, dest) ==
  IF ~Exists(f, trashed_path)
  THEN Result(1, "trashed file is missing", f, original_path, trashed_path, dest)
  ELSE restore_moved(Rename(f, trashed_path, dest), original_path, trashed_path, dest)

\* lines 296-324 on the parts of the selected line
restore_parts(f, trash, parts) ==
  restore_move(f, parts[3], ResolveTrashed(f, trash, parts[2]),
               RestoreDest(f, parts[3]))

\* lines 292-327
restore_scan(f, trash, lines, idx) ==
  IF idx = 0 THEN Result(0, "No trashed item", f, NONE, NONE, NONE)
  ELSE restore_parts(f, trash, Parts(lines[idx]))

restore_lines(f, trash, lines, name_tail) ==
  restore_scan(f, trash, lines, Selected(lines, name_tail))

\* lines 280-327, e being the outcome of ensure_trash
restore_read(e, trash, manifest, name_tail) ==
  IF ~e.ok THEN Result(1, "crash", e.fs, NONE, NONE, NONE)
  ELSE IF ~Exists(e.fs, manifest)
       THEN Result(0, "Nothing to restore", e.fs, NONE, NONE, NONE)
  ELSE IF e.fs[AbsPath(manifest)].kind # "file"
       THEN Result(1, "crash", e.fs, NONE, NONE, NONE)
  ELSE restore_lines(e.fs, trash, ReadLines(e.fs[AbsPath(manifest)].data), name_tail)

\* cmd_restore(args)
cmd_restore(f, name_tail, rootArg) ==
  restore_read(ensure_trash(f, RootOf(rootArg)), TrashDir(RootOf(rootArg)),
               ManifestPath(RootOf(rootArg)), name_tail)

\* ------------------------------------------------------------------------
\* Actions
\* ------------------------------------------------------------------------
InitFs ==
  LET paths == { << sep >>, cwd, dirA, dirB,
                 PathJoin(dirA, nameX), PathJoin(dirB, nameX), PathJoin(dirA, nameTab) }
  IN [q \in paths |->
        IF q = PathJoin(dirA, nameX) THEN File(dataP)
        ELSE IF q = PathJoin(dirB, nameX) THEN File(dataQ)
        ELSE IF q = PathJoin(dirA, nameTab) THEN File(dataT)
        ELSE Dir]

Init ==
  /\ fs = InitFs
  /\ now = 1
  /\ hist = << >>

\* one history entry: the command, its argument, the clock it read (rm
\* only), the file system it started in (pre) and its Result; the file
\* system it left is the next entry's pre, or fs for the last entry
Entry(op, arg, epoch, res) ==
  [op |-> op, arg |-> arg, epoch |-> epoch, pre |-> fs,
   status |-> res.status, out |-> res.out,
   orig |-> res.orig, src |-> res.src, dest |-> res.dest]

\* the command's effect: the file system it leaves and its history entry
Ran(op, arg, epoch, res) ==
  /\ fs' = res.fs
  /\ hist' = Append(hist, Entry(op, arg, epoch, res))
  /\ UNCHANGED now

\* python os_explorer.py rm <target> --root <rootArg>
Rm(bound) ==
  /\ Len(hist) < bound
  /\ \E target \in RmTargets, rootArg \in RootArgs :
       Ran("rm", target, now, cmd_rm(fs, target, rootArg, now))

\* python os_explorer.py restore <name> --root <rootArg>
Restore(bound) ==
  /\ Len(hist) < bound
  /\ \E name \in RestoreNames, rootArg \in RootArgs :
       Ran("restore", name, 0, cmd_restore(fs, name, rootArg))

\* the user puts a new file or an empty directory at a free path
Create(bound) ==
  /\ Len(hist) < bound
  /\ \E c \in CreateChoices :
       /\ c[1] \notin DOMAIN fs
       /\ IsDirAt(fs, Parent(c[1]))
       /\ Ran("create", c[1], 0,
              Result(0, c[2].kind, Put(fs, c[1], c[2]), NONE, NONE, c[1]))

\* time passes
Tick ==
  /\ now < MaxEpoch
  /\ now' = now + 1
  /\ UNCHANGED << fs, hist >>

\* runs of at most MaxOps commands
Next == Rm(MaxOps) \/ Restore(MaxOps) \/ Create(MaxOps) \/ Tick

Spec == Init /\ [][Next]_vars

\* runs of at most MaxDeep commands
NextDeep == Rm(MaxDeep) \/ Restore(MaxDeep) \/ Create(MaxDeep) \/ Tick

SpecDeep == Init /\ [][NextDeep]_vars

\* ------------------------------------------------------------------------
\* Properties
\* ------------------------------------------------------------------------
TheTrash == TrashDir(RootOf(<< DOT >>))
TheManifest == ManifestPath(RootOf(<< DOT >>))

\* Where the n commands that ran last start in hist.  Every run of n
\* successive commands is the last n of the state its last command leads
\* to, so a property of these holds of every such run.
Latest(n) == IF Len(hist) < n THEN {} ELSE { Len(hist) - n + 1 }

\* the file system command i left behind
PostOf(i) == IF i = Len(hist) THEN fs ELSE hist[i + 1].pre

\* the entry at q with everything below it, by path relative to q;
\* the empty function when nothing is at q
Subtree(f, q) ==
  [r \in { SubSeq(d, Len(q) + 1, Len(d)) : d \in { e \in DOMAIN f : Under(q, e) } } |->
     f[q \o r]]

ManifestLines(f) == IF TheManifest \in DOMAIN f THEN f[TheManifest].data ELSE << >>

Range(seq) == { seq[k] : k \in 1..Len(seq) }

\* base of line 258
BaseOf(target) == BaseName(RStrip(target, {sep}))

\* restore command h got as far as selecting a record
Selects(h) == h.op = "restore" /\ h.orig # NONE

\* the manifest line restore command h selected
SelLine(h) ==
  ReadLines(ManifestLines(h.pre))[Selected(ReadLines(ManifestLines(h.pre)), h.arg)]

\* the entry of the trash directory that the record selected by h names
Item(h) == PathJoin(TheTrash, Parts(SelLine(h))[2])

\* path p with "_restored" put before the extension of its last component
InsertRestored(p) ==
  LET dot   == RFind(p, DOT)
      slash == RFind(p, sep)
  IN IF dot > slash /\ \E k \in (slash + 1)..(dot - 1) : p[k] # DOT
     THEN SubSeq(p, 1, dot - 1) \o RESTORED \o SubSeq(p, dot, Len(p))
     ELSE p \o RESTORED

\* C1 (as claimed). Round trip: a successful rm of f followed by
\* restore(basename(f)), with nothing at f's path at restore time, leaves at
\* f's path what f was before the rm, and the item is gone from the trash.
C1_RoundTrip ==
  \A i \in Latest(2) :
    LET rm == hist[i]
        rs == hist[i + 1]
    IN (/\ rm.op = "rm" /\ rm.status = 0
        /\ rs.op = "restore" /\ rs.arg = BaseOf(rm.arg)
        /\ rm.orig \notin DOMAIN rs.pre)
       => /\ rm.orig \in DOMAIN PostOf(i + 1)
          /\ Subtree(PostOf(i + 1), rm.orig) = Subtree(rm.pre, rm.orig)
          /\ AbsPath(rm.dest) \notin DOMAIN PostOf(i + 1)

\* The round trip of C1 for the targets whose path holds no tab.
RoundTripWithoutTab ==
  \A i \in Latest(2) :
    LET rm == hist[i]
        rs == hist[i + 1]
    IN (/\ rm.op = "rm" /\ rm.status = 0 /\ TAB \notin Range(rm.orig)
        /\ rs.op = "restore" /\ rs.arg = BaseOf(rm.arg)
        /\ rm.orig \notin DOMAIN rs.pre)
       => /\ rm.orig \in DOMAIN PostOf(i + 1)
          /\ Subtree(PostOf(i + 1), rm.orig) = Subtree(rm.pre, rm.orig)
          /\ AbsPath(rm.dest) \notin DOMAIN PostOf(i + 1)

\* restore command h selected a record whose original path is occupied
Collides(h) == Selects(h) /\ Exists(h.pre, h.orig)

\* the item h's record names went from the trash to <name>_restored<ext>
MovedAside(h, post) ==
  /\ Item(h) \in DOMAIN h.pre
  /\ Item(h) \notin DOMAIN post
  /\ Subtree(post, InsertRestored(AbsPath(h.orig))) = Subtree(h.pre, Item(h))

\* what occupies the original path of h's record is as it was
OccupantKept(h, post) ==
  Subtree(post, AbsPath(h.orig)) = Subtree(h.pre, AbsPath(h.orig))

\* C2 (as claimed). Collision safety: whenever restore selects a record
\* whose original path is occupied, the trashed item is moved to
\* <name>_restored<ext> and the occupying entry is left unchanged.
C2_CollisionSafety ==
  \A i \in Latest(1) :
    Collides(hist[i]) =>
      MovedAside(hist[i], PostOf(i)) /\ OccupantKept(hist[i], PostOf(i))

\* C2 (amended). Whenever restore selects a record whose original path is
\* occupied, the occupying entry is left unchanged; and if the record's item
\* is in the trash directory, either it is moved to <name>_restored<ext>
\* with status 0, or the rename fails, restore returns 1 and the file system
\* is as it was.
C2_CollisionSafetyAmended ==
  \A i \in Latest(1) :
    Collides(hist[i]) =>
      /\ OccupantKept(hist[i], PostOf(i))
      /\ Item(hist[i]) \in DOMAIN hist[i].pre =>
           \/ hist[i].status = 0 /\ MovedAside(hist[i], PostOf(i))
           \/ hist[i].status = 1 /\ PostOf(i) = hist[i].pre

\* a restore met an occupied original path and moved the item aside
C2_Witness ==
  \E i \in 1..Len(hist) :
    /\ Collides(hist[i])
    /\ hist[i].status = 0
    /\ MovedAside(hist[i], PostOf(i))
    /\ AbsPath(hist[i].orig) \in DOMAIN PostOf(i)

\* C3 (as claimed). Newest wins: after two successive rm of files of the
\* same name from different directories, the first restore of that name
\* restores the later one, and a second restore, the older record and item
\* being still there, restores the older one.
C3_NewestWins ==
  \A i \in Latest(4) :
    LET a  == hist[i]
        b  == hist[i + 1]
        r1 == hist[i + 2]
        r2 == hist[i + 3]
    IN (/\ a.op = "rm" /\ a.status = 0 /\ b.op = "rm" /\ b.status = 0
        /\ BaseOf(a.arg) = BaseOf(b.arg) /\ Parent(a.orig) # Parent(b.orig)
        /\ r1.op = "restore" /\ r1.arg = BaseOf(a.arg)
        /\ r2.op = "restore" /\ r2.arg = BaseOf(a.arg))
       => /\ r1.status = 0
          /\ Subtree(r2.pre, b.orig) = Subtree(b.pre, b.orig)
          /\ (/\ RecordLine(a.epoch, a.arg) \in Range(ManifestLines(r2.pre))
              /\ AbsPath(a.dest) \in DOMAIN r2.pre)
             => /\ r2.status = 0
                /\ Subtree(PostOf(i + 3), a.orig) = Subtree(a.pre, a.orig)

\* the line an rm of target at epoch is to write, field by field
ExpectedLine(epoch, target) ==
  JoinWith(<< IntToStr(epoch),
              IntToStr(epoch) \o << "_" >> \o BaseOf(target),
              AbsPath(target) >>, TAB)

Succeeded(h) == h.op = "rm" /\ h.status = 0

RecordsOf(rms) == [k \in 1..Len(rms) |-> RecordLine(rms[k].epoch, rms[k].arg)]

\* C5 (as claimed). Manifest integrity: whenever the manifest exists it is
\* the header line followed by the records of all the successful rm so far,
\* in order.
C5_ManifestIntegrity ==
  TheManifest \in DOMAIN fs =>
    fs[TheManifest].data = << HEADER >> \o RecordsOf(SelectSeq(hist, Succeeded))

\* C6 (as claimed). Trashed-name uniqueness: a successful rm moves its
\* target to a name that nothing in the trash directory held.
C6_TrashedNameUnique ==
  \A i \in Latest(1) :
    Succeeded(hist[i]) => AbsPath(hist[i].dest) \notin DOMAIN hist[i].pre

\* C7 (as claimed). Malformed tolerance: the line restore selects splits on
\* tab into exactly three fields.
C7_ThreeFieldsOnly ==
  \A i \in Latest(1) :
    Selects(hist[i]) => Len(SplitAll(SelLine(hist[i]), TAB)) = 3

\* C8 (as claimed). Missing manifest: restore with no trash directory
\* reports "Nothing to restore" with status 0.
C8_NothingToRestore ==
  \A i \in Latest(1) :
    (hist[i].op = "restore" /\ TheTrash \notin DOMAIN hist[i].pre)
      => hist[i].status = 0 /\ hist[i].out = "Nothing to restore"

\* C9 (as claimed). Trashed-item resolution: restore moves nothing but the
\* entry of the trash directory its record names, and when that entry is
\* missing it reports the missing trashed file with status 1 and moves
\* nothing.
C9_OnlyFromTrash ==
  \A i \in Latest(1) :
    Selects(hist[i]) =>
      /\ PostOf(i) # hist[i].pre =>
           Item(hist[i]) \in DOMAIN hist[i].pre /\ Item(hist[i]) \notin DOMAIN PostOf(i)
      /\ Item(hist[i]) \notin DOMAIN hist[i].pre =>
           /\ hist[i].status = 1
           /\ hist[i].out = "trashed file is missing"
           /\ PostOf(i) = hist[i].pre

\* C10 (as claimed). Restore never destroys data: the destination a restore
\* renames onto held no entry.
C10_DestinationFree ==
  \A i \in Latest(1) :
    (hist[i].op = "restore" /\ hist[i].out = "Restored to")
      => AbsPath(hist[i].dest) \notin DOMAIN hist[i].pre

====
